---- MODULE Spec2Model ----
\* Model of package buffer (src/buffer.go): one Buffer written by a producer
\* and read by independent readers created with NewReader.
\*
\* Granularity.  Write, Close, Reset and NewReader run their whole body under
\* b.mu.Lock, and a Read holds b.mu.RLock from line 120 until it either
\* returns or parks inside sync.Cond.Wait (which takes its ticket on the
\* notify list before it releases the RLocker); Read writes only its own
\* reader's off.  Every critical section is therefore one step: a Read is cut
\* only where it gives the lock up, at Cond.Wait.  ReadCall is lines 120-141
\* up to the first Wait or the return, ReadWake is a notified reader's
\* reacquisition of the lock and the rest of the loop.  len(p) is read only
\* by the copy at line 138, so the length of the caller's buffer is drawn
\* where the Read returns.
\*
\* Data.  The bytes themselves are never inspected by the code, so the
\* producer writes the byte values k+1, k+2, ... where k is the number of
\* bytes written to the current stream: every position of a stream carries a
\* distinct value, which makes loss, duplication and reordering visible.
EXTENDS Integers, Sequences, FiniteSets, TLC

MaxLen   == 2      \* longest storage explored
MaxWrite == 2      \* longest chunk handed to Write
MaxP     == 2      \* largest caller buffer handed to Read

Readers == {"r1", "r2"}

\* make([]byte, 0, 1024) in Write
InitCap == 1024

PLens == 0..MaxP
WLens == 0..MaxWrite

VARIABLES
    buf,       \* Buffer.buf contents
    bufcap,    \* cap(Buffer.buf); 0 exactly when buf is the nil slice
    eof,       \* Buffer.eof
    set,       \* Buffer.set
    sig,       \* Buffer.sig # nil
    waiters,   \* readers holding an un-notified ticket on sig's notify list
    pc,        \* per reader: "none" (not created), "idle", "parked"
    off,       \* reader.off
    mark,      \* reader.mark
    ret,       \* outcome of the reader's last completed Read
    last,      \* the producer's last call: operation, bytes it appended,
               \*   returned count and error
    stale,     \* history: a Reset happened after the reader was created
    fresh,     \* history: a Read of the reader returned since the last Reset
    received,  \* history: the bytes handed to the reader, kept while no
               \*   Reset has happened since the reader was created
    wlog       \* history: concatenation of successful writes since last Reset

vars == <<buf, bufcap, eof, set, sig, waiters, pc, off, mark, ret, last,
          stale, fresh, received, wlog>>

bufVars    == <<buf, bufcap, eof, set>>
readerVars == <<pc, off, mark, ret, received>>
histVars   == <<stale, fresh>>

NoRet == [n |-> 0, err |-> "none"]

Called(op, p, n, err) == [op |-> op, p |-> p, n |-> n, err |-> err]

Min(a, b) == IF a <= b THEN a ELSE b

\* Outcome of append(b.buf, p...) on the capacity: storage is reused while
\* it fits, otherwise the runtime allocates at least the needed length.
AppendCap(c, need) == IF need <= c THEN c ELSE need

Init ==
    /\ buf = <<>>
    /\ bufcap = 0
    /\ eof = FALSE
    /\ set = FALSE
    /\ sig = FALSE
    /\ waiters = {}
    /\ pc = [c \in Readers |-> "none"]
    /\ off = [c \in Readers |-> 0]
    /\ mark = [c \in Readers |-> FALSE]
    /\ ret = [c \in Readers |-> NoRet]
    /\ last = Called("none", <<>>, 0, "none")
    /\ stale = [c \in Readers |-> FALSE]
    /\ fresh = [c \in Readers |-> FALSE]
    /\ received = [c \in Readers |-> <<>>]
    /\ wlog = <<>>

\* The chunk of n bytes the producer writes next.
NextChunk(n) == [i \in 1..n |-> Len(wlog) + i]

\* signal with sync.Cond.Signal in place of Broadcast: one waiter is notified.
signal_One(w) == IF sig /\ w # {} THEN w \ {CHOOSE c \in w : TRUE} ELSE w

\* b.signal(): Broadcast notifies every ticket taken so far.
signal(w) == IF sig THEN {} ELSE w

\* Write without the early return of lines 53-55: the empty append signals.
WriteEmpty_Signals(p) ==
    /\ Len(p) = 0
    /\ ~eof
    /\ waiters' = signal(waiters)
    /\ last' = Called("Write", <<>>, 0, "nil")
    /\ UNCHANGED <<bufVars, sig, readerVars, histVars, wlog>>

\* Buffer.Write, lines 53-55: empty input returns before taking the lock
WriteEmpty(p) ==
    /\ Len(p) = 0
    /\ last' = Called("Write", <<>>, 0, "nil")
    /\ UNCHANGED <<bufVars, sig, waiters, readerVars, histVars, wlog>>

\* Write whose eof test comes after the append: the bytes are stored and the
\* error is returned.
WriteClosed_Appends(p) ==
    /\ Len(p) > 0
    /\ eof
    /\ Len(buf) + Len(p) <= MaxLen
    /\ buf' = buf \o p
    /\ last' = Called("Write", <<>>, 0, "errClosed")
    /\ UNCHANGED <<bufcap, eof, set, sig, waiters, readerVars, histVars, wlog>>

\* Buffer.Write, lines 57-62: closed buffer
WriteClosed(p) ==
    /\ Len(p) > 0
    /\ eof
    /\ last' = Called("Write", <<>>, 0, "errClosed")
    /\ UNCHANGED <<bufVars, sig, waiters, readerVars, histVars, wlog>>

\* Write without b.signal().
WriteAppend_NoSignal(p) ==
    /\ Len(p) > 0
    /\ ~eof
    /\ Len(buf) + Len(p) <= MaxLen
    /\ buf' = buf \o p
    /\ bufcap' = AppendCap(IF bufcap = 0 THEN InitCap ELSE bufcap,
                           Len(buf) + Len(p))
    /\ last' = Called("Write", p, Len(p), "nil")
    /\ wlog' = wlog \o p
    /\ UNCHANGED <<eof, set, sig, waiters, readerVars, histVars>>

\* Write with append(b.buf[:0], p...): the chunk replaces the storage.
WriteAppend_Overwrites(p) ==
    /\ Len(p) > 0
    /\ ~eof
    /\ Len(buf) + Len(p) <= MaxLen
    /\ buf' = p
    /\ bufcap' = AppendCap(IF bufcap = 0 THEN InitCap ELSE bufcap, Len(p))
    /\ waiters' = signal(waiters)
    /\ last' = Called("Write", p, Len(p), "nil")
    /\ wlog' = wlog \o p
    /\ UNCHANGED <<eof, set, sig, readerVars, histVars>>

\* Buffer.Write, lines 57-72: append and signal
WriteAppend(p) ==
    /\ Len(p) > 0
    /\ ~eof
    /\ Len(buf) + Len(p) <= MaxLen
    /\ buf' = buf \o p
    /\ bufcap' = AppendCap(IF bufcap = 0 THEN InitCap ELSE bufcap,
                           Len(buf) + Len(p))
    /\ waiters' = signal(waiters)
    /\ last' = Called("Write", p, Len(p), "nil")
    /\ wlog' = wlog \o p
    /\ UNCHANGED <<eof, set, sig, readerVars, histVars>>

Write(p) ==
    \/ WriteEmpty(p)
    \/ WriteClosed(p)
    \/ WriteAppend(p)

\* Close without b.signal().
Close_Silent ==
    /\ eof' = TRUE
    /\ last' = Called("Close", <<>>, 0, "nil")
    /\ UNCHANGED <<buf, bufcap, set, sig, waiters, readerVars, histVars, wlog>>

\* Buffer.Close
Close ==
    /\ eof' = TRUE
    /\ waiters' = IF ~eof THEN signal(waiters) ELSE waiters
    /\ last' = Called("Close", <<>>, 0, "nil")
    /\ UNCHANGED <<buf, bufcap, set, sig, readerVars, histVars, wlog>>

\* Reset with b.buf = nil in place of b.buf[:0]: the storage is dropped.
Reset_DropsStorage ==
    /\ eof' = FALSE
    /\ buf' = <<>>
    /\ bufcap' = 0
    /\ set' = ~set
    /\ waiters' = signal(waiters)
    /\ last' = Called("Reset", <<>>, 0, "none")
    /\ stale' = [c \in Readers |-> pc[c] # "none"]
    /\ fresh' = [c \in Readers |-> FALSE]
    /\ received' = [c \in Readers |-> <<>>]
    /\ wlog' = <<>>
    /\ UNCHANGED <<sig, pc, off, mark, ret>>

\* Buffer.Reset
Reset ==
    /\ eof' = FALSE
    /\ buf' = <<>>
    /\ set' = ~set
    /\ waiters' = signal(waiters)
    /\ last' = Called("Reset", <<>>, 0, "none")
    /\ stale' = [c \in Readers |-> pc[c] # "none"]
    /\ fresh' = [c \in Readers |-> FALSE]
    /\ received' = [c \in Readers |-> <<>>]
    /\ wlog' = <<>>
    /\ UNCHANGED <<bufcap, sig, pc, off, mark, ret>>

\* NewReader that starts the reader at the current end of the storage.
NewReader_AtEnd(c) ==
    /\ pc[c] = "none"
    /\ c = "r2" => pc["r1"] # "none"
    /\ sig' = TRUE
    /\ pc' = [pc EXCEPT ![c] = "idle"]
    /\ off' = [off EXCEPT ![c] = Len(buf)]
    /\ mark' = [mark EXCEPT ![c] = set]
    /\ UNCHANGED <<bufVars, waiters, ret, last, histVars, received, wlog>>

\* NewReader; readers are created in the order r1, r2.
NewReader(c) ==
    /\ pc[c] = "none"
    /\ c = "r2" => pc["r1"] # "none"
    /\ sig' = TRUE
    /\ pc' = [pc EXCEPT ![c] = "idle"]
    /\ off' = [off EXCEPT ![c] = 0]
    /\ mark' = [mark EXCEPT ![c] = set]
    /\ UNCHANGED <<bufVars, waiters, ret, last, histVars, received, wlog>>

\* The loop test without !r.eof.
LoopCond_NoEofTest(c) == (Len(buf) = off[c]) /\ (mark[c] = set)

\* reader.Read, line 124: the wait loop's test
LoopCond(c) == (~eof /\ Len(buf) = off[c]) /\ (mark[c] = set)

\* Outcome with the end-of-stream test ahead of the mark test.
Outcome_EofFirst(c, n) ==
    IF Len(buf) = off[c] /\ eof THEN [n |-> 0, err |-> "EOF"]
    ELSE IF mark[c] # set THEN [n |-> 0, err |-> "ErrUnexpectedEOF"]
    ELSE IF off[c] > Len(buf) THEN [n |-> 0, err |-> "panic"]
    ELSE [n |-> Min(n, Len(buf) - off[c]), err |-> "nil"]

\* Outcome whose copy ignores len(p).
Outcome_CopyAll(c, n) ==
    IF mark[c] # set THEN [n |-> 0, err |-> "ErrUnexpectedEOF"]
    ELSE IF Len(buf) = off[c] /\ eof THEN [n |-> 0, err |-> "EOF"]
    ELSE IF off[c] > Len(buf) THEN [n |-> 0, err |-> "panic"]
    ELSE [n |-> Len(buf) - off[c], err |-> "nil"]

\* Outcome whose end-of-stream test is r.eof alone.
Outcome_EofEarly(c, n) ==
    IF mark[c] # set THEN [n |-> 0, err |-> "ErrUnexpectedEOF"]
    ELSE IF eof THEN [n |-> 0, err |-> "EOF"]
    ELSE IF off[c] > Len(buf) THEN [n |-> 0, err |-> "panic"]
    ELSE [n |-> Min(n, Len(buf) - off[c]), err |-> "nil"]

\* reader.Read, lines 128-141: the outcome once the loop test is false, for a
\* caller buffer of n bytes.  r.buf[r.off:] panics when r.off > len(r.buf).
Outcome(c, n) ==
    IF mark[c] # set THEN [n |-> 0, err |-> "ErrUnexpectedEOF"]
    ELSE IF Len(buf) = off[c] /\ eof THEN [n |-> 0, err |-> "EOF"]
    ELSE IF off[c] > Len(buf) THEN [n |-> 0, err |-> "panic"]
    ELSE [n |-> Min(n, Len(buf) - off[c]), err |-> "nil"]

\* reader.Read, lines 124-125: test true; Cond.Wait takes its ticket,
\* releases the RLocker and parks
Park(c) ==
    /\ LoopCond(c)
    /\ pc' = [pc EXCEPT ![c] = "parked"]
    /\ waiters' = waiters \cup {c}
    /\ UNCHANGED <<bufVars, sig, off, mark, ret, last, histVars, received,
                   wlog>>

\* Return without line 139: the offset is not advanced.
Return_NoAdvance(c, n) ==
    /\ ~LoopCond(c)
    /\ LET o == Outcome(c, n) IN
        /\ ret' = [ret EXCEPT ![c] = o]
        /\ received' = [received EXCEPT ![c] =
                           IF stale[c] THEN <<>>
                           ELSE @ \o SubSeq(buf, off[c] + 1, off[c] + o.n)]
    /\ pc' = [pc EXCEPT ![c] = "idle"]
    /\ fresh' = [fresh EXCEPT ![c] = TRUE]
    /\ UNCHANGED <<bufVars, sig, waiters, off, mark, last, stale, wlog>>

\* Return with the offset kept in the Buffer, one for all readers.
Return_SharedOffset(c, n) ==
    /\ ~LoopCond(c)
    /\ LET o == Outcome(c, n) IN
        /\ ret' = [ret EXCEPT ![c] = o]
        /\ off' = [d \in Readers |->
                      IF pc[d] = "none" THEN off[d] ELSE off[c] + o.n]
        /\ received' = [received EXCEPT ![c] =
                           IF stale[c] THEN <<>>
                           ELSE @ \o SubSeq(buf, off[c] + 1, off[c] + o.n)]
    /\ pc' = [pc EXCEPT ![c] = "idle"]
    /\ fresh' = [fresh EXCEPT ![c] = TRUE]
    /\ UNCHANGED <<bufVars, sig, waiters, mark, last, stale, wlog>>

\* reader.Read, lines 128-141 and the deferred RUnlock, for a caller buffer
\* of n bytes
Return(c, n) ==
    /\ ~LoopCond(c)
    /\ LET o == Outcome(c, n) IN
        /\ ret' = [ret EXCEPT ![c] = o]
        /\ off' = [off EXCEPT ![c] = off[c] + o.n]
        /\ received' = [received EXCEPT ![c] =
                           IF stale[c] THEN <<>>
                           ELSE @ \o SubSeq(buf, off[c] + 1, off[c] + o.n)]
    /\ pc' = [pc EXCEPT ![c] = "idle"]
    /\ fresh' = [fresh EXCEPT ![c] = TRUE]
    /\ UNCHANGED <<bufVars, sig, waiters, mark, last, stale, wlog>>

\* reader.Read called with a buffer of n bytes
ReadCall(c, n) ==
    /\ pc[c] = "idle"
    /\ (Park(c) \/ Return(c, n))

\* Cond.Wait returns in a notified reader: the RLocker is locked again and
\* the loop test is evaluated again; n is the length of the buffer the Read
\* was called with
ReadWake(c, n) ==
    /\ pc[c] = "parked"
    /\ c \notin waiters
    /\ (Park(c) \/ Return(c, n))

Next ==
    \/ \E n \in WLens : Write(NextChunk(n))
    \/ Close
    \/ Reset
    \/ \E c \in Readers : NewReader(c)
    \/ \E c \in Readers, n \in PLens : ReadCall(c, n)
    \/ \E c \in Readers, n \in PLens : ReadWake(c, n)

Spec == Init /\ [][Next]_vars


\* ------------------------------------------------------------------------
\* Vocabulary of the properties

Created(c) == pc[c] # "none"

\* The reader is inside Cond.Wait and no Broadcast has reached it yet.
Blocked(c) == pc[c] = "parked" /\ c \in waiters

\* The reader is inside Cond.Wait and has been notified.
Notified(c) == pc[c] = "parked" /\ c \notin waiters

\* A step of reader c's Read
ReadStep(c) == \E n \in PLens : ReadCall(c, n) \/ ReadWake(c, n)

\* A step in which a Read of reader c returns
Returns(c) == pc[c] # "none" /\ pc'[c] = "idle" /\ ReadStep(c)

Discontinued == [n |-> 0, err |-> "ErrUnexpectedEOF"]
EndOfStream  == [n |-> 0, err |-> "EOF"]

\* ------------------------------------------------------------------------
\* C1: for every reader, the first Read that returns after a Reset performed
\* since the reader was created returns (0, ErrUnexpectedEOF), whatever other
\* Write, Close or Reset calls come before that Read.
C1_NextReadAfterResetDiscontinued ==
    [][\A c \in Readers :
          (stale[c] /\ ~fresh[c] /\ Returns(c)) => ret'[c] = Discontinued]_vars

\* C2: while no Reset has happened since the reader was created, the bytes it
\* has been handed are exactly the first off bytes of what was written, in
\* write order, and a reader that was told end-of-stream has been handed the
\* concatenation of all successful writes.
C2_InOrderNoDupNoGap ==
    \A c \in Readers :
        (Created(c) /\ ~stale[c]) =>
            /\ off[c] <= Len(buf)
            /\ received[c] = SubSeq(wlog, 1, off[c])
            /\ received[c] = SubSeq(buf, 1, off[c])
            /\ ret[c].err = "EOF" => received[c] = wlog

\* A reader that received a whole stream of MaxLen bytes and was then told
\* end-of-stream, next to a reader that is only part of the way.
C2_Witness ==
    \E c, d \in Readers :
        /\ ~stale[c] /\ ~stale[d]
        /\ ret[c] = EndOfStream
        /\ Len(wlog) = MaxLen
        /\ received[c] = wlog
        /\ off[d] > 0 /\ off[d] < off[c]

\* C3: once a Read of a reader has returned ErrUnexpectedEOF, the reader's
\* next Read returns ErrUnexpectedEOF too (and so every later one), after
\* any Write, Close and Reset calls in between.
C3_DiscontinuedIsTerminal ==
    [][\A c \in Readers :
          (ret[c].err = "ErrUnexpectedEOF" /\ Returns(c))
              => ret'[c].err = "ErrUnexpectedEOF"]_vars

\* C5: every Read that returns yields (n, nil), (0, EOF) or
\* (0, ErrUnexpectedEOF): the slice expression r.buf[r.off:] is never
\* evaluated with r.off > len(r.buf).
C5_ReadNeverCrashes ==
    \A c \in Readers : ret[c].err \in {"none", "nil", "EOF", "ErrUnexpectedEOF"}

\* C6: every reader whose mark equals the buffer's set has
\* off <= len(buf).
C6_OffsetWithinStorage ==
    \A c \in Readers : (Created(c) /\ mark[c] = set) => off[c] <= Len(buf)

\* ------------------------------------------------------------------------
\* Scheduling: a notified reader is eventually run again.  The producer and
\* the callers of Read are under no obligation to make further calls.
FairSpec ==
    Spec /\ \A c \in Readers : WF_vars(\E n \in PLens : ReadWake(c, n))

\* C4: a Read that was blocked in the wait loop when a Write of at least one
\* byte, a Close or a Reset completed eventually returns, also when further
\* Write, Close or Reset calls complete before the reader has the lock again.
C4_WokenReadReturns ==
    \A c \in Readers : Notified(c) ~> (pc[c] = "idle")

\* ------------------------------------------------------------------------
\* The producer's last call was a Write that appended a chunk, and reader c
\* was blocked with nothing unread when it did.
ChunkPending(c) ==
    /\ Notified(c)
    /\ mark[c] = set
    /\ last.op = "Write" /\ Len(last.p) > 0
    /\ off[c] + Len(last.p) = Len(buf)

\* C7: a Write of a non-empty chunk notifies every blocked reader, and each
\* reader that was blocked with nothing unread returns exactly that chunk
\* with no error when its buffer is large enough and nothing else was called
\* on the buffer in between.
C7_WriteWakesAllWithChunk ==
    [][/\ \A k \in WLens :
            (Len(buf') = Len(buf) + k /\ WriteAppend(NextChunk(k))) =>
                \A c \in Readers : Blocked(c) => Notified(c)'
       /\ \A c \in Readers, n \in PLens :
            (ChunkPending(c) /\ n >= Len(last.p) /\ ReadWake(c, n)) =>
                /\ pc'[c] = "idle"
                /\ ret'[c] = [n |-> Len(last.p), err |-> "nil"]
                /\ off'[c] = Len(buf)
                /\ ~stale[c] => received'[c] = received[c] \o last.p]_vars

\* Every reader was blocked and has been notified by one Write.
C7_Witness ==
    /\ \A c \in Readers : ChunkPending(c) /\ ~stale[c]
    /\ Len(last.p) = MaxWrite

\* C8: a Read returns (0, EOF) only when the buffer is closed and the reader
\* has nothing unread, and a reader that was told EOF is told EOF again by
\* its next Read, without blocking, as long as no Reset happened.
C8_EofOnlyDrainedAndStable ==
    [][\A c \in Readers :
          /\ (ret'[c].err = "EOF" /\ Returns(c)) =>
                /\ eof /\ off[c] = Len(buf)
                /\ ret'[c].n = 0 /\ off'[c] = off[c]
          /\ (ret[c].err = "EOF" /\ fresh[c] /\ ReadStep(c)) =>
                /\ pc'[c] = "idle"
                /\ ret'[c] = EndOfStream]_vars

\* A reader that read data and was then told EOF, no Reset since.
C8_Witness ==
    \E c \in Readers : ret[c] = EndOfStream /\ fresh[c] /\ off[c] = MaxLen

\* C9 as stated: on a closed buffer every Write call returns
\* (0, errClosed) and leaves storage, closed flag and epoch unchanged.
C9_EveryWriteOnClosedFails ==
    [][\A k \in WLens :
          (eof /\ Write(NextChunk(k))) =>
              /\ last'.n = 0 /\ last'.err = "errClosed"
              /\ UNCHANGED <<buf, eof, set>>]_vars

\* C9 amended: on a closed buffer every Write of at least one byte returns
\* (0, errClosed), a Write of no bytes returns (0, nil), and both leave
\* storage, closed flag and epoch unchanged.
C9_WriteOnClosed ==
    [][\A k \in WLens :
          (eof /\ Write(NextChunk(k))) =>
              /\ last'.n = 0
              /\ last'.err = IF k > 0 THEN "errClosed" ELSE "nil"
              /\ UNCHANGED <<buf, eof, set>>]_vars

\* A Write of at least one byte was refused on a closed buffer holding data.
C9_Witness ==
    eof /\ last.op = "Write" /\ last.err = "errClosed" /\ Len(buf) > 0

\* C10: Reset leaves length 0, the capacity as it was, eof false and set
\* flipped; the capacity is positive once a Write stored data; and the Write
\* of a non-empty chunk that follows a Reset is accepted in full, into the
\* retained storage when there is one.
C10_ResetReopens ==
    [][/\ Reset =>
            /\ Len(buf') = 0
            /\ bufcap' = bufcap
            /\ eof' = FALSE
            /\ set' # set
       /\ \A k \in WLens :
            WriteAppend(NextChunk(k)) => bufcap' > 0 /\ bufcap' >= bufcap
       /\ \A k \in WLens :
            (k > 0 /\ last.op = "Reset" /\ Write(NextChunk(k))) =>
                /\ last'.n = k /\ last'.err = "nil"
                /\ buf' = NextChunk(k)
                /\ bufcap > 0 => bufcap' = bufcap]_vars

\* A buffer that was closed (a reader was told EOF), then reset (that reader
\* is stale), then written to again, with its storage retained.
C10_Witness ==
    /\ last.op = "Write" /\ last.n > 0 /\ last.err = "nil"
    /\ buf = last.p
    /\ bufcap = InitCap
    /\ \E c \in Readers : ret[c] = EndOfStream /\ stale[c]

\* ------------------------------------------------------------------------
\* C11: a reader is created at offset 0 with the buffer's current set, at any
\* time; while no Reset follows its creation, its first Read on non-empty
\* storage is handed the bytes from the start of the current stream, and
\* every Read leaves it with exactly the first off bytes written since the
\* last Reset (none from before it).
C11_NewReaderReadsFromStart ==
    [][\A c \in Readers :
          /\ (pc[c] = "none" /\ pc'[c] # "none") =>
                /\ off'[c] = 0
                /\ mark'[c] = set /\ set' = set
                /\ ~stale'[c] /\ received'[c] = <<>>
          /\ \A n \in PLens :
                (~stale[c] /\ off[c] = 0 /\ Len(buf) > 0 /\ ReadCall(c, n)) =>
                    /\ pc'[c] = "idle"
                    /\ ret'[c] = [n |-> Min(n, Len(wlog)), err |-> "nil"]
                    /\ received'[c] = SubSeq(wlog, 1, Min(n, Len(wlog)))
          /\ (Created(c) /\ ~stale[c] /\ off'[c] # off[c]) =>
                received'[c] = SubSeq(wlog, 1, off'[c])]_vars

\* r1 predates a Reset; r2 was created after it and has read the whole of
\* what was written since.
C11_Witness ==
    /\ stale["r1"] /\ off["r1"] > 0
    /\ Created("r2") /\ ~stale["r2"]
    /\ Len(wlog) > 0 /\ received["r2"] = wlog

\* C12: a step of one reader's Read changes that reader's offset only: the
\* other readers' offsets, every reader's mark, and the buffer's storage,
\* eof and set stay as they are.
C12_ReadersIndependent ==
    [][\A c \in Readers :
          (\/ <<buf, bufcap, eof, set, mark>>' # <<buf, bufcap, eof, set, mark>>
           \/ \E d \in Readers \ {c} : off'[d] # off[d])
              => ~ReadStep(c)]_vars

\* r1 has read all of a full storage while r2 has read nothing.
C12_Witness ==
    /\ Created("r2") /\ off["r2"] = 0 /\ ret["r2"] = NoRet
    /\ off["r1"] = MaxLen /\ Len(buf) = MaxLen /\ ret["r1"].n > 0

\* C13: a Write of no bytes returns (0, nil) in every state of the buffer and
\* changes neither storage, eof, set nor any reader, and notifies no waiter.
C13_EmptyWriteIsNoOp ==
    [][(last'.op = "Write" /\ Write(NextChunk(0))) =>
          /\ last'.n = 0 /\ last'.err = "nil"
          /\ UNCHANGED <<buf, bufcap, eof, set, sig, waiters, pc, off, mark,
                         ret>>]_vars

\* A Write of no bytes returned while a reader was blocked.
C13_Witness ==
    /\ last = Called("Write", <<>>, 0, "nil")
    /\ \E c \in Readers : Blocked(c)

\* C14: a Write of k > 0 bytes on a buffer that is not closed returns
\* (k, nil); the new storage is the old storage followed by exactly those
\* bytes; eof and set are unchanged.
C14_WriteAppendsWhole ==
    [][\A k \in WLens :
          (k > 0 /\ ~eof /\ Write(NextChunk(k))) =>
              /\ last'.n = k /\ last'.err = "nil"
              /\ Len(buf') = Len(buf) + k
              /\ SubSeq(buf', 1, Len(buf)) = buf
              /\ SubSeq(buf', Len(buf) + 1, Len(buf) + k) = NextChunk(k)
              /\ UNCHANGED <<eof, set>>]_vars

\* A Write appended to storage that already held bytes.
C14_Witness ==
    /\ last.op = "Write" /\ last.n > 0 /\ last.err = "nil"
    /\ Len(buf) > last.n

\* C15: Close returns nil; on an open buffer it sets eof and notifies every
\* blocked reader; on a closed buffer it changes nothing and notifies no
\* one; storage and set are unchanged either way.
C15_CloseIdempotent ==
    [][(last'.op = "Close" /\ Close) =>
          /\ last'.err = "nil"
          /\ eof'
          /\ UNCHANGED <<buf, bufcap, set>>
          /\ eof => UNCHANGED <<waiters, pc, off, mark, ret>>
          /\ ~eof => \A c \in Readers : Blocked(c) => Notified(c)']_vars

\* A Close notified a blocked reader.
C15_Witness ==
    /\ last.op = "Close" /\ eof
    /\ \E c \in Readers : Notified(c)

\* ------------------------------------------------------------------------
\* The step is reader c's Read with a caller buffer of n bytes.  A Read
\* touches neither the producer's record nor another reader's position and
\* result; these tests come first because they are cheap to evaluate.
ReadOf(c, n) ==
    /\ pc[c] # "none"
    /\ last' = last
    /\ \A d \in Readers \ {c} : pc'[d] = pc[d] /\ ret'[d] = ret[d]
    /\ (ReadCall(c, n) \/ ReadWake(c, n))

\* ------------------------------------------------------------------------
\* The buffer of the design notes whose epoch is a counter of Resets, which a
\* reader captures at creation and compares for equality: the captured value
\* differs from the current one exactly when a Reset happened since the
\* reader was created, which is stale[c].
CounterLoopCond(c) == (~eof /\ Len(buf) = off[c]) /\ ~stale[c]

CounterOutcome(c, n) ==
    IF stale[c] THEN [n |-> 0, err |-> "ErrUnexpectedEOF"]
    ELSE IF Len(buf) = off[c] /\ eof THEN [n |-> 0, err |-> "EOF"]
    ELSE [n |-> Min(n, Len(buf) - off[c]), err |-> "nil"]

\* C16: with the boolean toggle every Read blocks exactly when it blocks
\* with the counter epoch, and returns the outcome it returns with the
\* counter epoch.  (Both buffers are in the same state up to the first Read
\* on which they differ, so the comparison is made step by step.)
C16_ToggleEqualsCounter ==
    [][\A c \in Readers, n \in PLens :
          ReadOf(c, n) =>
              /\ pc'[c] = "parked" <=> CounterLoopCond(c)
              /\ pc'[c] = "idle" => ret'[c] = CounterOutcome(c, n)]_vars

\* C17: a Read that evaluates its outcome while the reader's mark differs
\* from the buffer's set returns (0, ErrUnexpectedEOF) in that step, without
\* waiting and without moving the offset, with or without unread bytes,
\* closed or not.
C17_MarkTestFirst ==
    [][\A c \in Readers :
          (pc[c] # "none" /\ mark[c] # set /\ ReadStep(c)) =>
              /\ pc'[c] = "idle"
              /\ ret'[c] = Discontinued
              /\ off'[c] = off[c]]_vars

\* A reader was told the stream is discontinued; the buffer is closed and
\* the reader's offset equals the length, which is the end-of-stream case.
C17_Witness ==
    \E c \in Readers :
        /\ ret[c] = Discontinued /\ fresh[c]
        /\ mark[c] # set
        /\ eof /\ off[c] = Len(buf) /\ last.op = "Close"

\* C18: a Read of a reader whose mark equals set and whose offset is below
\* the length returns min(len(p), len - off) bytes, the bytes
\* buf[off : off+n], with no error, and advances the offset by n; and no step
\* lowers the offset of a reader whose mark equals set.
C18_CopyStep ==
    [][\A c \in Readers :
          /\ \A n \in PLens :
                (mark[c] = set /\ off[c] < Len(buf) /\ ReadOf(c, n)) =>
                   LET m == IF n <= Len(buf) - off[c]
                            THEN n ELSE Len(buf) - off[c] IN
                   /\ pc'[c] = "idle"
                   /\ ret'[c] = [n |-> m, err |-> "nil"]
                   /\ off'[c] = off[c] + m
                   /\ ~stale[c] => received'[c] =
                          received[c] \o SubSeq(buf, off[c] + 1, off[c] + m)
          /\ (pc[c] # "none" /\ mark[c] = set /\ mark'[c] = set') =>
                off'[c] >= off[c]]_vars

\* A Read with a buffer shorter than what was unread: one byte of two.
C18_Witness ==
    \E c \in Readers :
        /\ ~stale[c] /\ ret[c] = [n |-> 1, err |-> "nil"]
        /\ off[c] = 1 /\ Len(buf) = 2 /\ received[c] = <<1>>

\* C19: a Read step waits exactly when the buffer is not closed, the
\* reader's offset equals the length and its mark equals set; a reader that
\* waits un-notified takes no step; and a Read with a non-empty buffer that
\* returns without error returns at least one byte.
C19_BlocksExactlyWhile ==
    [][\A c \in Readers :
          LET waitTest == ~eof /\ off[c] = Len(buf) /\ mark[c] = set IN
          /\ Blocked(c) => pc'[c] = "parked"
          /\ (c \notin waiters /\ c \in waiters') => waitTest
          /\ (pc[c] # "none" /\ waitTest /\ ReadStep(c)) => Blocked(c)'
          /\ (pc[c] # "none" /\ pc'[c] = "idle"
                /\ ret'[c].err = "nil" /\ ret'[c].n = 0) =>
                \A n \in PLens \ {0} : ~(ReadCall(c, n) \/ ReadWake(c, n))]_vars

\* A reader read bytes, called Read again and waits.
C19_Witness ==
    \E c \in Readers :
        /\ Blocked(c)
        /\ ret[c].err = "nil" /\ ret[c].n >= 1
        /\ off[c] = Len(buf) /\ ~eof

\* C20: a reader that sleeps with an un-notified ticket still has its wait
\* test true: no Write, Close or Reset completed since it evaluated the
\* test.  Tickets belong to parked readers only, and while no reader was
\* ever created (sig is nil) nobody waits.
C20_NoLostWakeup ==
    /\ \A c \in Readers :
          Blocked(c) => (~eof /\ Len(buf) = off[c] /\ mark[c] = set)
    /\ \A c \in waiters : pc[c] = "parked"
    /\ ~sig => (waiters = {} /\ \A c \in Readers : pc[c] = "none")
    /\ (\E c \in Readers : pc[c] # "none") => sig

\* One reader sleeps at the end of the storage while the other has been
\* notified by the Write that the first one has already read.
C20_Witness ==
    \E c, d \in Readers :
        /\ Blocked(c) /\ off[c] = Len(buf) /\ off[c] > 0
        /\ Notified(d) /\ off[d] < Len(buf)
====
